---------------------------- MODULE Spec2Model ----------------------------
(***************************************************************************)
(* A model of shihtzu.py: the record parser, the enrichment pipeline of    *)
(* ADObject, the ADCollection with its privilege propagation, and the      *)
(* markdown writer with its merge ("smart append") engine.                 *)
(*                                                                         *)
(* Text is modelled as TLA+ strings and every str method the program uses  *)
(* (strip, lower, upper, split, replace, startswith, find) is computed     *)
(* character by character.                                                 *)
(***************************************************************************)
EXTENDS Integers, Sequences, FiniteSets, TLC

VARIABLES
    pc,              \* position of the modelled call / of main()
    uac_value,       \* calculate_uac_attributes: the argument
    attributes,      \* calculate_uac_attributes: the value returned (or the exception)
    args,            \* the configuration: filename_seed, delimiter, file_hint, overwrite, append
    clock,           \* the day number of the wall clock (datetime.utcnow / now)
    stream,          \* parse_ad_file: the lines of the input file
    line_num,        \* parse_ad_file: the number of lines consumed
    current_object,  \* parse_ad_file: <<>> for None, <<object>> otherwise
    objects,         \* parse_ad_file: the list returned
    log,             \* the warnings and errors logged, oldest first
    collection,      \* ADCollection: users, groups, computers, domains (ordered dicts)
    admin_groups,    \* _process_admin_privileges: the triggering groups still to visit
    stack,           \* the active calls of _tag_as_admin, innermost last
    prop_runs,       \* the number of calls of _process_admin_privileges so far
    first_run_tags,  \* the collection as the first propagation run left it
    files,           \* the output directory: path -> [text, decodable]
    calls,           \* the last two calls of to_markdown, older first
    writes,          \* the number of calls of to_markdown so far
    pending,         \* write_all: the <<directory, object>> pairs still to write
    runs             \* the number of runs of main() started

uac_vars == <<uac_value, attributes>>

parse_vars == <<stream, line_num, current_object, objects, log>>

prop_vars == <<collection, admin_groups, stack, prop_runs, first_run_tags>>

file_vars == <<files, calls, writes, pending, runs>>

vars == <<pc, uac_value, attributes, args, clock, stream, line_num, current_object,
          objects, log, collection, admin_groups, stack, prop_runs, first_run_tags,
          files, calls, writes, pending, runs>>

(***************************************************************************)
(* Python str operations                                                   *)
(***************************************************************************)
Char(s, i) == SubSeq(s, i, i)

Slice(s, i) == SubSeq(s, i, Len(s))

IsSpace(c) == c \in {" ", "\t", "\n", "\r"}

IsDigit(c) == c \in {"0", "1", "2", "3", "4", "5", "6", "7", "8", "9"}

\* the positions of s that hold no whitespace
Inked(s) == {i \in 1..Len(s) : ~IsSpace(Char(s, i))}

Least(positions) == CHOOSE i \in positions : \A j \in positions : i <= j

Greatest(positions) == CHOOSE i \in positions : \A j \in positions : j <= i

LStrip(s) == IF Inked(s) = {} THEN "" ELSE Slice(s, Least(Inked(s)))

RStrip(s) == IF Inked(s) = {} THEN "" ELSE SubSeq(s, 1, Greatest(Inked(s)))

Strip(s) == RStrip(LStrip(s))

LowerCaseLetters == "abcdefghijklmnopqrstuvwxyz"

UpperCaseLetters == "ABCDEFGHIJKLMNOPQRSTUVWXYZ"

RECURSIVE IndexIn(_, _, _)
IndexIn(letters, c, i) ==
    IF i > Len(letters) THEN 0
    ELSE IF Char(letters, i) = c THEN i
    ELSE IndexIn(letters, c, i + 1)

CharUpper(c) ==
    LET i == IndexIn(LowerCaseLetters, c, 1)
    IN  IF i = 0 THEN c ELSE Char(UpperCaseLetters, i)

CharLower(c) ==
    LET i == IndexIn(UpperCaseLetters, c, 1)
    IN  IF i = 0 THEN c ELSE Char(LowerCaseLetters, i)

RECURSIVE Upper(_)
Upper(s) ==
    IF s = "" THEN "" ELSE CharUpper(Char(s, 1)) \o Upper(Slice(s, 2))

RECURSIVE Lower(_)
Lower(s) ==
    IF s = "" THEN "" ELSE CharLower(Char(s, 1)) \o Lower(Slice(s, 2))

StartsWithAt(s, p, i) ==
    i + Len(p) - 1 <= Len(s) /\ SubSeq(s, i, i + Len(p) - 1) = p

StartsWith(s, p) == StartsWithAt(s, p, 1)

\* str.find from position i (1-based); 0 when p does not occur
Occurrences(s, p, i) == {j \in i..(Len(s) - Len(p) + 1) : StartsWithAt(s, p, j)}

Find(s, p, i) ==
    IF Occurrences(s, p, i) = {} THEN 0 ELSE Least(Occurrences(s, p, i))

Contains(s, p) == Find(s, p, 1) # 0

\* s.split(d): every piece
RECURSIVE Split(_, _)
Split(s, d) ==
    LET i == Find(s, d, 1)
    IN  IF i = 0 THEN <<s>>
        ELSE <<SubSeq(s, 1, i - 1)>> \o Split(Slice(s, i + Len(d)), d)

\* s.split(d, 1): at most one split
SplitOnce(s, d) ==
    LET i == Find(s, d, 1)
    IN  IF i = 0 THEN <<s>>
        ELSE <<SubSeq(s, 1, i - 1), Slice(s, i + Len(d))>>

\* s.replace(p, r)
RECURSIVE Replace(_, _, _)
Replace(s, p, r) ==
    LET i == Find(s, p, 1)
    IN  IF i = 0 THEN s
        ELSE SubSeq(s, 1, i - 1) \o r \o Replace(Slice(s, i + Len(p)), p, r)

\* sep.join(items)
RECURSIVE Join(_, _)
Join(sep, items) ==
    IF items = <<>> THEN ""
    ELSE IF Len(items) = 1 THEN items[1]
    ELSE items[1] \o sep \o Join(sep, Tail(items))

\* str.isdigit() on the ASCII inputs of the model
RECURSIVE AllDigits(_)
AllDigits(s) ==
    s = "" \/ (IsDigit(Char(s, 1)) /\ AllDigits(Slice(s, 2)))

isdigit(s) == s # "" /\ AllDigits(s)

Digits == "0123456789"

DigitValue(c) == IndexIn(Digits, c, 1) - 1

RECURSIVE DecimalValue(_, _)
DecimalValue(s, acc) ==
    IF s = "" THEN acc
    ELSE DecimalValue(Slice(s, 2), 10 * acc + DigitValue(Char(s, 1)))

\* int(s): surrounding whitespace and one sign are accepted, then digits only.
\* IntRaises(s) is int(s) raising ValueError; int(s) is the value otherwise.
IntSigned(s) == Len(Strip(s)) > 0 /\ Char(Strip(s), 1) \in {"+", "-"}

IntBody(s) == IF IntSigned(s) THEN Slice(Strip(s), 2) ELSE Strip(s)

IntRaises(s) == ~isdigit(IntBody(s))

int(s) ==
    IF IntSigned(s) /\ Char(Strip(s), 1) = "-"
    THEN 0 - DecimalValue(IntBody(s), 0)
    ELSE DecimalValue(IntBody(s), 0)

HexDigits == "0123456789abcdef"

\* a faulty conversion, for comparison: the digits are those of base ten
RECURSIVE HexOfNatBaseTen(_)
HexOfNatBaseTen(n) ==
    IF n < 10 THEN Char(HexDigits, n + 1)
    ELSE HexOfNatBaseTen(n \div 10) \o Char(HexDigits, (n % 10) + 1)

RECURSIVE HexOfNat(_)
HexOfNat(n) ==
    IF n < 16 THEN Char(HexDigits, n + 1)
    ELSE HexOfNat(n \div 16) \o Char(HexDigits, (n % 16) + 1)

\* hex(n): "0x.." and "-0x.." for a negative n
hex(n) == IF n < 0 THEN "-0x" \o HexOfNat(0 - n) ELSE "0x" \o HexOfNat(n)

(***************************************************************************)
(* calculate_uac_attributes                                                *)
(***************************************************************************)
UAC_ATTRIBUTES ==
    << "ADS_UF_TRUSTED_TO_AUTHENTICATE_FOR_DELEGATION",
       "ADS_UF_PASSWORD_EXPIRED",
       "ADS_UF_DONT_REQUIRE_PREAUTH",
       "ADS_UF_USE_DES_KEY_ONLY",
       "ADS_UF_NOT_DELEGATED",
       "ADS_UF_TRUSTED_FOR_DELEGATION",
       "ADS_UF_SMARTCARD_REQUIRED",
       "ADS_UF_MNS_LOGON_ACCOUNT",
       "ADS_UF_DONT_EXPIRE_PASSWD",
       "N/A", "N/A",
       "ADS_UF_SERVER_TRUST_ACCOUNT",
       "ADS_UF_WORKSTATION_TRUST_ACCOUNT",
       "ADS_UF_INTERDOMAIN_TRUST_ACCOUNT",
       "ADS_UF_NORMAL_ACCOUNT",
       "ADS_UF_TEMP_DUPLICATE_ACCOUNT",
       "ADS_UF_ENCRYPTED_TEXT_PASSWORD_ALLOWED",
       "ADS_UF_PASSWD_CANT_CHANGE",
       "ADS_UF_PASSWD_NOTREQD",
       "ADS_UF_LOCKOUT",
       "ADS_UF_HOMEDIR_REQUIRED",
       "ADS_UF_ACCOUNTDISABLE",
       "ADS_UF_SCRIPT" >>

UAC_VALUES ==
    << 1000000, 800000, 400000, 200000, 100000, 80000, 40000, 20000, 10000,
       8000, 4000, 2000, 1000, 800, 200, 100, 80, 40, 20, 10, 8, 2, 1 >>

\* a faulty scan, for comparison: it takes the entry after the first that fits
\* when that one fits too
RECURSIVE UacScanNext(_, _)
UacScanNext(hex_val, i) ==
    IF i > Len(UAC_VALUES) THEN 0
    ELSE IF hex_val >= UAC_VALUES[i]
    THEN (IF i < Len(UAC_VALUES) /\ hex_val >= UAC_VALUES[i + 1] THEN i + 1 ELSE i)
    ELSE UacScanNext(hex_val, i + 1)

\* the for loop of one while iteration: the first i with hex_val >= UAC_VALUES[i]
RECURSIVE UacScan(_, _)
UacScan(hex_val, i) ==
    IF i > Len(UAC_VALUES) THEN 0
    ELSE IF hex_val >= UAC_VALUES[i] THEN i
    ELSE UacScan(hex_val, i + 1)

\* the while loop: the table indices taken, in the order they are taken
RECURSIVE UacLoop(_, _)
UacLoop(hex_val, taken) ==
    IF hex_val > 0
    THEN LET i == UacScan(hex_val, 1)
         IN  UacLoop(hex_val - UAC_VALUES[i], Append(taken, i))
    ELSE taken

Returned(v) == [raised |-> "", value |-> v]

Raised(e) == [raised |-> e, value |-> <<>>]

\* the value returned, or the ValueError of int() on hex(uac_value)[2:]
calculate_uac_attributes(uac) ==
    LET digits == Slice(hex(uac), 3)
    IN  IF IntRaises(digits) THEN Raised("ValueError")
        ELSE LET taken == UacLoop(int(digits), <<>>)
             IN  Returned([k \in 1..Len(taken) |-> UAC_ATTRIBUTES[taken[k]]])

(***************************************************************************)
(* get_unix_time / datetime.fromtimestamp                                  *)
(*                                                                         *)
(* Windows tick counts exceed the integers TLC computes with, so they stay *)
(* digit strings: they are compared digit by digit, and the calendar text  *)
(* of the tick counts the model feeds in is tabulated (UTC).               *)
(***************************************************************************)
RECURSIVE StripZeros(_)
StripZeros(s) ==
    IF Len(s) > 1 /\ Char(s, 1) = "0" THEN StripZeros(Slice(s, 2)) ELSE s

RECURSIVE DigitsLess(_, _)
DigitsLess(a, b) ==
    IF a = "" THEN FALSE
    ELSE IF DigitValue(Char(a, 1)) # DigitValue(Char(b, 1))
         THEN DigitValue(Char(a, 1)) < DigitValue(Char(b, 1))
         ELSE DigitsLess(Slice(a, 2), Slice(b, 2))

\* a < b for two digit strings read as numbers
NumLess(a, b) ==
    LET x == StripZeros(a)
        y == StripZeros(b)
    IN  Len(x) < Len(y) \/ (Len(x) = Len(y) /\ DigitsLess(x, y))

\* the first tick count whose calendar year is 10000: fromtimestamp raises from here on
YEAR_10000_TICKS == "2650467744000000000"

TIME_TABLE ==
    { [ticks |-> "1",                  text |-> "1601-01-01 00:00:00", day |-> 0 - 134774],
      [ticks |-> "132223104000000000", text |-> "2020-01-01 00:00:00", day |-> 18262],
      [ticks |-> "134067744000000000", text |-> "2025-11-05 00:00:00", day |-> 20397] }

FromTimestampRaises(value) == ~NumLess(value, YEAR_10000_TICKS)

FromTimestamp(value) ==
    CHOOSE row \in TIME_TABLE : row.ticks = StripZeros(value)

(***************************************************************************)
(* get_common_name_from_dn, create_link                                    *)
(***************************************************************************)
RECURSIVE DnNames(_)
DnNames(dn_parts) ==
    IF dn_parts = <<>> THEN <<>>
    ELSE LET part1 == Split(Upper(Head(dn_parts)), ",OU=")[1]
             part2 == Split(Upper(part1), ",CN=")[1]
         IN  (IF StartsWith(Upper(part2), "CN=") THEN <<Slice(part2, 4)>> ELSE <<>>)
             \o DnNames(Tail(dn_parts))

get_common_name_from_dn(distinguished_name) ==
    DnNames(Split(distinguished_name, ", "))

create_link(name) == "[[" \o name \o "]]"

(***************************************************************************)
(* ADObject                                                                *)
(***************************************************************************)
DEFAULT_LOGON_COUNT_THRESHOLD == 100

DEFAULT_LOGON_DATE_THRESHOLD == 30

DEFAULT_FILENAME_SEED == "cn"

DEFAULT_DELIMITER == ": "

DEFAULT_SEPARATOR == "--------------------"

InSeq(x, q) == \E i \in 1..Len(q) : q[i] = x

ADObject(filename_seed) ==
    [ raw_data |-> <<>>,          \* ordered dict: <<[key, values]>> in insertion order
      tags |-> <<>>,
      members |-> <<>>,
      parents |-> <<>>,
      time_values |-> <<>>,
      uac_values |-> <<>>,
      userdefined |-> <<>>,
      object_type |-> "UNKNOWN",
      filename_seed |-> filename_seed ]

HasKey(raw_data, key) == \E i \in 1..Len(raw_data) : raw_data[i].key = key

KeyIndex(raw_data, key) == CHOOSE i \in 1..Len(raw_data) : raw_data[i].key = key

Values(raw_data, key) == raw_data[KeyIndex(raw_data, key)].values

\* raw_data[key].append(value) on the defaultdict
DictAppend(raw_data, key, value) ==
    IF HasKey(raw_data, key)
    THEN [raw_data EXCEPT ![KeyIndex(raw_data, key)].values = Append(@, value)]
    ELSE Append(raw_data, [key |-> key, values |-> <<value>>])

add_attribute(self, name, value) ==
    [self EXCEPT !.raw_data = DictAppend(@, Lower(name), value)]

get_filename(self) ==
    IF HasKey(self.raw_data, self.filename_seed)
       /\ Values(self.raw_data, self.filename_seed) # <<>>
    THEN Values(self.raw_data, self.filename_seed)[1]
    ELSE "unknown"

AnyContains(values, word) ==
    \E i \in 1..Len(values) : Contains(Lower(values[i]), word)

\* a faulty classification, for comparison: the file hint decides first
is_group_hint_first(self, file_hint) ==
    file_hint = "groupsFile" \/
        (HasKey(self.raw_data, "objectclass")
            /\ AnyContains(Values(self.raw_data, "objectclass"), "group"))

is_group(self, file_hint) ==
    IF HasKey(self.raw_data, "objectclass")
    THEN AnyContains(Values(self.raw_data, "objectclass"), "group")
    ELSE file_hint = "groupsFile"

is_computer(self, file_hint) ==
    IF HasKey(self.raw_data, "objectclass")
    THEN /\ AnyContains(Values(self.raw_data, "objectclass"), "computer")
         /\ HasKey(self.raw_data, "operatingsystem")
    ELSE file_hint = "computersFile"

determine_type(self, source_file_hint) ==
    [self EXCEPT !.object_type =
        IF is_group(self, source_file_hint) THEN "GROUP"
        ELSE IF is_computer(self, source_file_hint) THEN "COMPUTER"
        ELSE "USER"]

RECURSIVE ExtendUnique(_, _)
ExtendUnique(have, more) ==
    IF more = <<>> THEN have
    ELSE ExtendUnique(IF InSeq(Head(more), have) THEN have ELSE Append(have, Head(more)),
                      Tail(more))

\* for each value: extend the list by the value's common names not yet in it
RECURSIVE CollectNames(_, _)
CollectNames(have, values) ==
    IF values = <<>> THEN have
    ELSE CollectNames(ExtendUnique(have, get_common_name_from_dn(Head(values))),
                      Tail(values))

process_members(self) ==
    IF HasKey(self.raw_data, "member")
    THEN [self EXCEPT !.members = CollectNames(@, Values(self.raw_data, "member"))]
    ELSE self

process_parents(self) ==
    IF HasKey(self.raw_data, "memberof")
    THEN [self EXCEPT !.parents = CollectNames(@, Values(self.raw_data, "memberof"))]
    ELSE self

TAG_LOW_LOGON == "#BadAccount due to #LowLogonCount at this Domain Controller"

process_logon_count(self, threshold) ==
    IF HasKey(self.raw_data, "logoncount")
       /\ ~IntRaises(Values(self.raw_data, "logoncount")[1])
       /\ int(Values(self.raw_data, "logoncount")[1]) < threshold
    THEN [self EXCEPT !.tags = Append(@, TAG_LOW_LOGON)]
    ELSE self

TIME_ATTRS == <<"pwdlastset", "badpasswordtime", "lastlogon", "lastlogontimestamp">>

TAG_STALE_LOCAL == "#BadAccount due to #StaleLogons at this Domain Controller"

TAG_STALE_REPLICATED ==
    "#BadAccount due to #StaleLogons replicated across the Domain. "
    \o "See info on 'lastlogontimestamp' attribute for more information."

\* one iteration of the loop over time_attrs; st = [obj, raised]
TimeStep(st, attr, cutoff_day) ==
    LET self == st.obj
        value == Values(self.raw_data, attr)[1]
    IN  IF st.raised # "" \/ ~HasKey(self.raw_data, attr) THEN st
        ELSE IF ~isdigit(value) \/ StripZeros(value) = "0" THEN st
        ELSE IF FromTimestampRaises(value) THEN [st EXCEPT !.raised = "ValueError"]
        ELSE LET clean_time == FromTimestamp(value)
                 timed == [self EXCEPT !.time_values =
                              Append(@, attr \o DEFAULT_DELIMITER \o clean_time.text)]
                 stale == attr \in {"lastlogon", "lastlogontimestamp"}
                              /\ clean_time.day < cutoff_day
             IN  [st EXCEPT !.obj =
                    IF ~stale THEN timed
                    ELSE [timed EXCEPT !.tags =
                            Append(@, IF attr = "lastlogon" THEN TAG_STALE_LOCAL
                                      ELSE TAG_STALE_REPLICATED)]]

RECURSIVE TimeLoop(_, _, _)
TimeLoop(st, attrs, cutoff_day) ==
    IF attrs = <<>> THEN st
    ELSE TimeLoop(TimeStep(st, Head(attrs), cutoff_day), Tail(attrs), cutoff_day)

\* [obj, raised]: the object as the call leaves it, and the exception it raises ("" for none)
process_time_values(self, date_threshold, now) ==
    TimeLoop([obj |-> self, raised |-> ""], TIME_ATTRS, now - date_threshold)

UacLink(attr) == "[[UserAccountControlValues#" \o attr \o "]]"

UAC_TAG_RULES ==
    << [flags |-> {"ADS_UF_SMARTCARD_REQUIRED"}, tag |-> "#SmartcardRequired"],
       [flags |-> {"ADS_UF_LOCKOUT", "ADS_UF_ACCOUNTDISABLE"},
        tag |-> "#BadAccount due to #DisabledOrLockedAccount at this Domain Controller"],
       [flags |-> {"ADS_UF_PASSWORD_EXPIRED"},
        tag |-> "#BadAccount because #PasswordExpired at this Domain Controller"],
       [flags |-> {"ADS_UF_TRUSTED_TO_AUTHENTICATE_FOR_DELEGATION",
                   "ADS_UF_TRUSTED_FOR_DELEGATION"},
        tag |-> "#DelegationOpportunity"],
       [flags |-> {"ADS_UF_NORMAL_ACCOUNT"}, tag |-> "#NormalAccount"],
       [flags |-> {"ADS_UF_SERVER_TRUST_ACCOUNT"}, tag |-> "#ServerTrustAccount"] >>

RECURSIVE UacTags(_, _)
UacTags(attrs, k) ==
    IF k > Len(UAC_TAG_RULES) THEN <<>>
    ELSE (IF \E i \in 1..Len(attrs) : attrs[i] \in UAC_TAG_RULES[k].flags
          THEN <<UAC_TAG_RULES[k].tag>> ELSE <<>>) \o UacTags(attrs, k + 1)

process_uac_values(self) ==
    IF ~HasKey(self.raw_data, "useraccountcontrol") THEN self
    ELSE LET uac_val == Values(self.raw_data, "useraccountcontrol")[1]
             decoded == calculate_uac_attributes(int(uac_val))
         IN  IF IntRaises(uac_val) \/ decoded.raised # "" THEN self
             ELSE [self EXCEPT
                     !.uac_values = @ \o [k \in 1..Len(decoded.value) |->
                                             UacLink(decoded.value[k])],
                     !.tags = @ \o UacTags(decoded.value, 1)]

TAG_CREDS ==
    "#Creds because of #UserPasswordAttribute. This is a #HighImportance finding!"

process_credentials(self) ==
    IF HasKey(self.raw_data, "userpassword")
    THEN [self EXCEPT !.tags = Append(@, TAG_CREDS)]
    ELSE self

\* [obj, raised]: a raising process_time_values ends the call there, with the
\* object as the earlier steps left it
process_all(self, logon_count_threshold, logon_date_threshold, source_file_hint, now) ==
    LET timed == process_time_values(
                     process_logon_count(process_parents(process_members(self)),
                                         logon_count_threshold),
                     logon_date_threshold, now)
    IN  IF timed.raised # "" THEN timed
        ELSE [obj |-> determine_type(
                          process_credentials(process_uac_values(timed.obj)),
                          source_file_hint),
              raised |-> ""]

(***************************************************************************)
(* parse_ad_file                                                           *)
(*                                                                         *)
(* The locals of the call are [current_object, objects, log];              *)
(* current_object is <<>> for None and <<object>> otherwise.               *)
(***************************************************************************)
\* a faulty boundary test, for comparison: the sentinel line is not a boundary
IsBoundaryBlankOnly(parts) == Len(parts) = 1 /\ parts[1] = ""

\* the elif of the loop body: one part that is empty or the sentinel line
IsBoundary(parts) ==
    Len(parts) = 1 /\ (parts[1] = "" \/ parts[1] = DEFAULT_SEPARATOR)

\* the body of the for loop on one line, its try/except included
parse_line(st, raw_line, conf, today) ==
    LET stripped == Strip(raw_line)
        line == IF Contains(stripped, "\\") THEN Replace(stripped, "\\", "") ELSE stripped
        parts == SplitOnce(line, conf.delimiter)
    IN  IF stripped = "" /\ st.current_object = <<>> THEN st
        ELSE IF Len(parts) = 2
        THEN LET target == IF st.current_object = <<>>
                           THEN ADObject(conf.filename_seed)
                           ELSE st.current_object[1]
             IN  [st EXCEPT !.current_object =
                     <<add_attribute(target, Strip(parts[1]), Strip(parts[2]))>>]
        ELSE IF IsBoundary(parts) /\ st.current_object # <<>>
        THEN LET done == process_all(st.current_object[1], DEFAULT_LOGON_COUNT_THRESHOLD,
                                     DEFAULT_LOGON_DATE_THRESHOLD, conf.file_hint, today)
             IN  IF done.raised # ""
                 THEN [st EXCEPT !.current_object = <<done.obj>>,
                                 !.log = Append(@, "error processing line")]
                 ELSE [st EXCEPT !.objects = Append(@, done.obj),
                                 !.current_object = <<>>]
        ELSE IF Len(parts) # 1
        THEN [st EXCEPT !.log = Append(@, "malformed line")]
        ELSE st

\* "Don't forget the last object": the code after the loop, and the outer except
parse_flush(st, conf, today) ==
    IF st.current_object = <<>> THEN st
    ELSE LET done == process_all(st.current_object[1], DEFAULT_LOGON_COUNT_THRESHOLD,
                                 DEFAULT_LOGON_DATE_THRESHOLD, conf.file_hint, today)
         IN  IF done.raised # ""
             THEN [st EXCEPT !.current_object = <<done.obj>>,
                             !.log = Append(@, "error parsing file")]
             ELSE [st EXCEPT !.objects = Append(@, done.obj)]

ParseStart == [current_object |-> <<>>, objects |-> <<>>, log |-> <<>>]

RECURSIVE ParseLines(_, _, _, _)
ParseLines(st, lines, conf, today) ==
    IF lines = <<>> THEN st
    ELSE ParseLines(parse_line(st, Head(lines), conf, today), Tail(lines), conf, today)

\* the list a whole call returns
parse_ad_file(lines, conf, today) ==
    parse_flush(ParseLines(ParseStart, lines, conf, today), conf, today).objects

(***************************************************************************)
(* ADObject._write_content: the full rendering of an object                *)
(***************************************************************************)
HEADERS ==
    [ rawdata |-> "# Raw Data:",
      tags |-> "# Tags:",
      time |-> "# Clean Timestamps:",
      members |-> "# Members:",
      parents |-> "# Parents:",
      uac_calculated |-> "# UserAccountControl Values:",
      userdefined |-> "# User Defined:" ]

\* the fence of the raw-data block: three grave accents, then the info string
FENCE == SubSeq("`'", 1, 1) \o SubSeq("`'", 1, 1) \o SubSeq("`'", 1, 1)
FENCE_OPEN == FENCE \o "plaintext raw"

RECURSIVE ValueLines(_, _)
ValueLines(key, values) ==
    IF values = <<>> THEN ""
    ELSE key \o DEFAULT_DELIMITER \o Head(values) \o "\n" \o ValueLines(key, Tail(values))

\* for key, values in raw_data.items(): for value in values: write "key: value\n"
RECURSIVE RawLines(_)
RawLines(raw_data) ==
    IF raw_data = <<>> THEN ""
    ELSE ValueLines(Head(raw_data).key, Head(raw_data).values) \o RawLines(Tail(raw_data))

Links(names) == [i \in 1..Len(names) |-> create_link(names[i])]

\* "\n<header><suffix>\n" and the joined lines, or nothing for an empty list
Section(header, suffix, lines) ==
    IF lines = <<>> THEN ""
    ELSE "\n" \o header \o suffix \o "\n" \o Join("\n", lines) \o "\n"

write_content(self) ==
    HEADERS.rawdata \o "\n" \o FENCE_OPEN \o "\n" \o RawLines(self.raw_data) \o FENCE \o "\n"
    \o Section(HEADERS.tags, "", self.tags)
    \o Section(HEADERS.members, "", Links(self.members))
    \o Section(HEADERS.parents, "", Links(self.parents))
    \o Section(HEADERS.uac_calculated, "", self.uac_values)
    \o Section(HEADERS.time, "", self.time_values)
    \o "\n" \o HEADERS.userdefined \o "\n"
    \o (IF self.userdefined = <<>> THEN "" ELSE Join("\n", self.userdefined) \o "\n")

(***************************************************************************)
(* ADObject._parse_existing_file: the regular expressions, computed        *)
(***************************************************************************)
\* \s* from position i: the first position that holds no whitespace
SkipSpace(s, i) ==
    IF {j \in Inked(s) : j >= i} = {} THEN Len(s) + 1
    ELSE Least({j \in Inked(s) : j >= i})

NoMatch == [matched |-> FALSE, group |-> ""]

\* re.search of the raw-data pattern (heading, whitespace, opening fence,
\* whitespace, lazy group, whitespace, closing fence) with re.DOTALL,
\* tried at each occurrence of the heading from position i, leftmost first;
\* the group is taken up to the first closing fence (its trailing whitespace
\* is stripped by the caller)
RECURSIVE RawDataMatch(_, _)
RawDataMatch(content, i) ==
    LET p == Find(content, "# Raw Data:", i)
        fence == SkipSpace(content, p + Len("# Raw Data:"))
        body == SkipSpace(content, fence + Len(FENCE_OPEN))
        close == Find(content, FENCE, body)
    IN  IF p = 0 THEN NoMatch
        ELSE IF StartsWithAt(content, FENCE_OPEN, fence) /\ close # 0
        THEN [matched |-> TRUE, group |-> SubSeq(content, body, close - 1)]
        ELSE RawDataMatch(content, p + 1)

\* the first position from i where stop begins, or the end of the text (\Z)
StopAt(content, stop, i) ==
    IF Find(content, stop, i) = 0 THEN Len(content) + 1 ELSE Find(content, stop, i)

\* re.search(header + r'\s*(.*?)(?=' + stop + r'|\Z)', content, re.DOTALL):
\* the leftmost occurrence of the header, whatever follows it on its line
SectionMatch(content, header, stop) ==
    LET p == Find(content, header, 1)
        body == SkipSpace(content, p + Len(header))
    IN  IF p = 0 THEN NoMatch
        ELSE [matched |-> TRUE,
              group |-> SubSeq(content, body, StopAt(content, stop, body) - 1)]

\* [line.strip() for line in text.strip().split('\n') if line.strip()]
RECURSIVE StrippedLines(_)
StrippedLines(lines) ==
    IF lines = <<>> THEN <<>>
    ELSE (IF Strip(Head(lines)) = "" THEN <<>> ELSE <<Strip(Head(lines))>>)
         \o StrippedLines(Tail(lines))

SectionLines(found) ==
    IF found.matched THEN StrippedLines(Split(Strip(found.group), "\n")) ELSE <<>>

RECURSIVE RawPairs(_, _)
RawPairs(result, lines) ==
    IF lines = <<>> THEN result
    ELSE LET parts == SplitOnce(Head(lines), DEFAULT_DELIMITER)
         IN  RawPairs(IF Len(parts) = 2
                      THEN DictAppend(result, Lower(Strip(parts[1])), Strip(parts[2]))
                      ELSE result,
                      Tail(lines))

Unlinked(lines) ==
    [i \in 1..Len(lines) |-> Replace(Replace(lines[i], "[[", ""), "]]", "")]

parse_existing_file(content) ==
    [ raw_data |->
          IF RawDataMatch(content, 1).matched
          THEN RawPairs(<<>>, Split(Strip(RawDataMatch(content, 1).group), "\n"))
          ELSE <<>>,
      tags |-> SectionLines(SectionMatch(content, "# Tags:", "\n# ")),
      members |-> Unlinked(SectionLines(SectionMatch(content, "# Members:", "\n#"))),
      parents |-> Unlinked(SectionLines(SectionMatch(content, "# Parents:", "\n#"))),
      uac_values |->
          SectionLines(SectionMatch(content, "# UserAccountControl Values:", "\n#")),
      time_values |-> SectionLines(SectionMatch(content, "# Clean Timestamps:", "\n#")),
      userdefined |-> SectionLines(SectionMatch(content, "# User Defined:", "\n#")) ]

(***************************************************************************)
(* ADObject._smart_append and ADObject.to_markdown                         *)
(***************************************************************************)
RECURSIVE NotIn(_, _)
NotIn(items, existing) ==
    IF items = <<>> THEN <<>>
    ELSE (IF InSeq(Head(items), existing) THEN <<>> ELSE <<Head(items)>>)
         \o NotIn(Tail(items), existing)

\* the raw attributes with a new key, and the new values of the known keys
RECURSIVE NewRawData(_, _)
NewRawData(raw_data, existing) ==
    IF raw_data = <<>> THEN <<>>
    ELSE LET key == Head(raw_data).key
             new_values == IF HasKey(existing, key)
                           THEN NotIn(Head(raw_data).values, Values(existing, key))
                           ELSE Head(raw_data).values
         IN  (IF new_values = <<>> THEN <<>>
              ELSE <<[key |-> key, values |-> new_values]>>)
             \o NewRawData(Tail(raw_data), existing)

\* a timestamp line is new when no existing line starts with its "attr: "
RECURSIVE NewTimeValues(_, _)
NewTimeValues(items, existing) ==
    IF items = <<>> THEN <<>>
    ELSE LET attr_name == Split(Head(items), DEFAULT_DELIMITER)[1]
         IN  (IF \E i \in 1..Len(existing) :
                     StartsWith(existing[i], attr_name \o DEFAULT_DELIMITER)
              THEN <<>> ELSE <<Head(items)>>)
             \o NewTimeValues(Tail(items), existing)

NewData(self, existing_data) ==
    [ raw_data |-> NewRawData(self.raw_data, existing_data.raw_data),
      tags |-> NotIn(self.tags, existing_data.tags),
      members |-> NotIn(self.members, existing_data.members),
      parents |-> NotIn(self.parents, existing_data.parents),
      uac_values |-> NotIn(self.uac_values, existing_data.uac_values),
      time_values |-> NewTimeValues(self.time_values, existing_data.time_values),
      userdefined |-> NotIn(self.userdefined, existing_data.userdefined) ]

HasNewData(new_data) ==
    \/ new_data.raw_data # <<>>
    \/ new_data.tags # <<>>
    \/ new_data.members # <<>>
    \/ new_data.parents # <<>>
    \/ new_data.uac_values # <<>>
    \/ new_data.time_values # <<>>
    \/ new_data.userdefined # <<>>

\* what _smart_append writes for new_data, under the heading stamped with time_text
NewDataBlock(new_data, time_text) ==
    "\n\n## New Data Added - " \o time_text \o "\n\n"
    \o (IF new_data.raw_data = <<>> THEN ""
        ELSE HEADERS.rawdata \o " (New Attributes)\n" \o FENCE_OPEN \o "\n"
             \o RawLines(new_data.raw_data) \o FENCE \o "\n")
    \o Section(HEADERS.tags, " (New Tags)", new_data.tags)
    \o Section(HEADERS.members, " (New Members)", Links(new_data.members))
    \o Section(HEADERS.parents, " (New Parents)", Links(new_data.parents))
    \o Section(HEADERS.uac_calculated, " (New Values)", new_data.uac_values)
    \o Section(HEADERS.time, " (New Values)", new_data.time_values)
    \o Section(HEADERS.userdefined, " (New Values)", new_data.userdefined)

\* [result, written]: what the call returns and what it writes to the file,
\* which it opens in append mode
smart_append(self, existing_content, time_text) ==
    LET new_data == NewData(self, parse_existing_file(existing_content))
    IN  IF ~HasNewData(new_data)
        THEN [result |-> "unchanged", written |-> ""]
        ELSE [result |-> "appended", written |-> NewDataBlock(new_data, time_text)]

\* a faulty write, for comparison: the file is opened and nothing is written
CreateFileEmpty(fs, filepath, text) ==
    [f \in DOMAIN fs \cup {filepath} |->
        IF f = filepath THEN [text |-> "", decodable |-> TRUE] ELSE fs[f]]

\* open(filepath, 'w') and the writes that follow
CreateFile(fs, filepath, text) ==
    [f \in DOMAIN fs \cup {filepath} |->
        IF f = filepath THEN [text |-> text, decodable |-> TRUE] ELSE fs[f]]

\* a faulty append, for comparison: the file is opened with 'w'
AppendFileTruncating(fs, filepath, text) ==
    [fs EXCEPT ![filepath] = [text |-> text, decodable |-> TRUE]]

\* open(filepath, 'a') and the writes that follow
AppendFile(fs, filepath, text) ==
    [fs EXCEPT ![filepath].text = @ \o text]

\* datetime.now().strftime("%Y-%m-%d %H:%M:%S") on the days of the model
NOW_TEXT ==
    << [day |-> 20400, text |-> "2025-11-08 00:00:00"],
       [day |-> 20761, text |-> "2026-11-04 00:00:00"] >>

strftime_now(day) ==
    (CHOOSE row \in {NOW_TEXT[i] : i \in 1..Len(NOW_TEXT)} : row.day = day).text

FilePath(output_dir, filename) == output_dir \o "/" \o filename \o ".md"

\* [result, files]: what to_markdown returns and the files after it.  The
\* read of _smart_append raises (UnicodeDecodeError) on a file that holds a
\* byte the encoding cannot decode; the handler then appends everything.
to_markdown(self, fs, output_dir, overwrite, append, today) ==
    LET filename == get_filename(self)
        filepath == FilePath(output_dir, filename)
    IN  IF filename = "" THEN [result |-> "skipped", files |-> fs]
        ELSE IF filepath \in DOMAIN fs
        THEN IF append
             THEN IF fs[filepath].decodable
                  THEN LET merged == smart_append(self, fs[filepath].text,
                                                  strftime_now(today))
                       IN  [result |-> merged.result,
                            files |-> IF merged.result = "unchanged" THEN fs
                                      ELSE AppendFile(fs, filepath, merged.written)]
                  ELSE [result |-> "appended",
                        files |-> AppendFile(fs, filepath,
                                     "\n\n## Appended Data - " \o strftime_now(today)
                                     \o "\n\n" \o write_content(self))]
             ELSE IF overwrite
             THEN [result |-> "overwritten",
                   files |-> CreateFile(fs, filepath, write_content(self))]
             ELSE [result |-> "skipped", files |-> fs]
        ELSE [result |-> "created",
              files |-> CreateFile(fs, filepath, write_content(self))]

TextOf(fs, filepath) == IF filepath \in DOMAIN fs THEN fs[filepath].text ELSE ""

\* the record kept of one call of to_markdown; base is the text the file held
\* before the unbroken sequence of merge runs that ends with this call
Call(self, fs, output_dir, overwrite, append, done, earlier) ==
    LET filepath == FilePath(output_dir, get_filename(self))
        merging == append /\ filepath \in DOMAIN fs
        continues == /\ earlier # <<>>
                     /\ earlier[Len(earlier)].merging
                     /\ earlier[Len(earlier)].filepath = filepath
    IN  [ obj |-> self, filepath |-> filepath, overwrite |-> overwrite, append |-> append,
          existed |-> filepath \in DOMAIN fs,
          decodable |-> filepath \in DOMAIN fs /\ fs[filepath].decodable,
          merging |-> merging,
          base |-> IF merging /\ continues THEN earlier[Len(earlier)].base
                   ELSE TextOf(fs, filepath),
          before |-> TextOf(fs, filepath),
          result |-> done.result,
          after |-> TextOf(done.files, filepath) ]

\* the last two calls are kept
Remember(earlier, call) ==
    IF earlier = <<>> THEN <<call>> ELSE <<earlier[Len(earlier)], call>>

(***************************************************************************)
(* ADCollection: add_object, _process_admin_privileges, _tag_as_admin      *)
(*                                                                         *)
(* Each of the four dicts is kept in insertion order: <<[key, obj]>>.      *)
(***************************************************************************)
ADCollection == [users |-> <<>>, groups |-> <<>>, computers |-> <<>>, domains |-> <<>>]

DictGet(dict, key) == dict[KeyIndex(dict, key)].obj

\* dict[key] = obj: a key already there keeps its place
DictSet(dict, key, obj) ==
    IF HasKey(dict, key)
    THEN [dict EXCEPT ![KeyIndex(dict, key)].obj = obj]
    ELSE Append(dict, [key |-> key, obj |-> obj])

BucketOf(object_type) ==
    CASE object_type = "USER" -> "users"
      [] object_type = "GROUP" -> "groups"
      [] object_type = "COMPUTER" -> "computers"
      [] object_type = "DOMAIN" -> "domains"
      [] OTHER -> ""

\* [collection, log] after add_object(ad_object)
add_object(st, ad_object) ==
    LET key == get_filename(ad_object)
        bucket == BucketOf(ad_object.object_type)
    IN  IF key = ""
        THEN [st EXCEPT !.log = Append(@, "no valid key")]
        ELSE IF bucket = "" THEN st
        ELSE [st EXCEPT !.collection[bucket] = DictSet(@, key, ad_object)]

RECURSIVE AddObjects(_, _)
AddObjects(st, objs) ==
    IF objs = <<>> THEN st ELSE AddObjects(add_object(st, Head(objs)), Tail(objs))

TAG_NATIVE_ADMIN == "#GroupIsAdmin based on native admincount=1"

PARENTAGE == " based on group parentage tied to admincount=1, "
             \o "ultimately derived from membership in "

GroupAdminTag(origin_name) == "#GroupIsAdmin" \o PARENTAGE \o origin_name

UserAdminTag(origin_name) == "#IsAdmin" \o PARENTAGE \o origin_name

ComputerAdminTag(origin_name) == "#ComputerIsAdmin" \o PARENTAGE \o origin_name

\* a faulty tagging, for comparison: the tag is appended even when present
AddTagUnchecked(coll, bucket, key, tag) ==
    IF ~HasKey(coll[bucket], key)
    THEN coll
    ELSE [coll EXCEPT ![bucket][KeyIndex(coll[bucket], key)].obj.tags = Append(@, tag)]

\* if tag not in obj.tags: obj.tags.append(tag), for the object under key, if any
AddTag(coll, bucket, key, tag) ==
    IF ~HasKey(coll[bucket], key) \/ InSeq(tag, DictGet(coll[bucket], key).tags)
    THEN coll
    ELSE [coll EXCEPT ![bucket][KeyIndex(coll[bucket], key)].obj.tags = Append(@, tag)]

\* a faulty selection, for comparison: every group counts as triggering
RECURSIVE AdminGroupsAll(_)
AdminGroupsAll(groups) ==
    IF groups = <<>> THEN <<>> ELSE <<Head(groups).key>> \o AdminGroupsAll(Tail(groups))

\* the keys of the groups whose first admincount value is not "0", in dict order
RECURSIVE AdminGroups(_)
AdminGroups(groups) ==
    IF groups = <<>> THEN <<>>
    ELSE (IF HasKey(Head(groups).obj.raw_data, "admincount")
             /\ Values(Head(groups).obj.raw_data, "admincount")[1] # "0"
          THEN <<Head(groups).key>> ELSE <<>>) \o AdminGroups(Tail(groups))

\* a faulty call, for comparison: the recursive call passes the group it is
\* made for as the origin, where the code passes origin_name on unchanged
FrameOwnOrigin(group_name, origin_name) ==
    [group_name |-> group_name, origin_name |-> group_name, i |-> 1, returned |-> FALSE]

\* a call of _tag_as_admin: the member index i is the next member to handle;
\* returned says that the recursive call made for member i has come back
Frame(group_name, origin_name) ==
    [group_name |-> group_name, origin_name |-> origin_name, i |-> 1, returned |-> FALSE]

\* a faulty membership test, for comparison: no member is taken for a group
DescendsNever(coll, member) == FALSE

\* a faulty membership test, for comparison: a group that already carries the
\* native tag is not descended into again
DescendsUntagged(coll, member) ==
    HasKey(coll.groups, member)
        /\ ~InSeq(TAG_NATIVE_ADMIN, DictGet(coll.groups, member).tags)

\* "if member in self.groups": the child group is tagged and the call recurses
Descends(coll, member) == HasKey(coll.groups, member)

\* the part of the loop body after the recursive call: the user and computer checks
TagUserAndComputer(coll, member, origin_name) ==
    AddTag(AddTag(coll, "users", member, UserAdminTag(origin_name)),
           "computers", member, ComputerAdminTag(origin_name))

(***************************************************************************)
(* The decoder on its own: one call on an argument drawn from UacInputs    *)
(***************************************************************************)
MaxUac == 300

UacInputs == (0 - 20 .. MaxUac) \cup {512, 514, 2048, 4096, 66048, 66050, 590336, 2097152}

Args(seed, delimiter, hint, overwrite, append) ==
    [ filename_seed |-> seed, delimiter |-> delimiter, file_hint |-> hint,
      overwrite |-> overwrite, append |-> append ]

DefaultArgs == Args(DEFAULT_FILENAME_SEED, DEFAULT_DELIMITER, "", FALSE, FALSE)

UacIdle == uac_value = 0 /\ attributes = Returned(<<>>)

ParseIdle ==
    stream = <<>> /\ line_num = 0 /\ current_object = <<>> /\ objects = <<>> /\ log = <<>>

PropIdle ==
    /\ collection = ADCollection
    /\ admin_groups = <<>>
    /\ stack = <<>>
    /\ prop_runs = 0
    /\ first_run_tags = ADCollection

NoFiles == [filepath \in {} |-> [text |-> "", decodable |-> TRUE]]

FileIdle ==
    files = NoFiles /\ calls = <<>> /\ writes = 0 /\ pending = <<>> /\ runs = 0

UacInit ==
    /\ pc = "uac_call"
    /\ uac_value \in UacInputs
    /\ attributes = Returned(<<>>)
    /\ args = DefaultArgs
    /\ clock = 0
    /\ ParseIdle
    /\ PropIdle
    /\ FileIdle

UacCall ==
    /\ pc = "uac_call"
    /\ attributes' = calculate_uac_attributes(uac_value)
    /\ pc' = "uac_done"
    /\ UNCHANGED <<file_vars, uac_value, args, clock, parse_vars, prop_vars>>

UacNext == UacCall

SpecUac == UacInit /\ [][UacNext]_vars

\* the largest table threshold not exceeding r (r >= 1; 1 is in the table)
C10_Largest(r) ==
    CHOOSE v \in {UAC_VALUES[i] : i \in 1..Len(UAC_VALUES)} :
        /\ v <= r
        /\ \A w \in {UAC_VALUES[i] : i \in 1..Len(UAC_VALUES)} : w <= r => w <= v

\* the thresholds of the greedy decomposition of r
RECURSIVE C10_Greedy(_)
C10_Greedy(r) ==
    IF r = 0 THEN <<>> ELSE <<C10_Largest(r)>> \o C10_Greedy(r - C10_Largest(r))

RECURSIVE C10_Sum(_)
C10_Sum(q) == IF q = <<>> THEN 0 ELSE Head(q) + C10_Sum(Tail(q))

\* the label of the first table entry with threshold v
C10_Label(v) ==
    UAC_ATTRIBUTES[CHOOSE i \in 1..Len(UAC_VALUES) :
                       UAC_VALUES[i] = v /\ \A j \in 1..(i - 1) : UAC_VALUES[j] # v]

C10_DecimalDigitsOnly(n) == AllDigits(Slice(hex(n), 3))

\* C10: for every input whose hex digit string (hex(n)[2:]) holds decimal digits
\* only, the decoder returns (no exception) the labels of the greedy
\* decomposition of that digit string read in base 10: thresholds in
\* non-increasing order, summing to that number; 66048 gives exactly
\* DONT_EXPIRE_PASSWD then NORMAL_ACCOUNT.
C10_GreedyDecomposition ==
    (pc = "uac_done" /\ C10_DecimalDigitsOnly(uac_value)) =>
        LET target == DecimalValue(Slice(hex(uac_value), 3), 0)
            g == C10_Greedy(target)
        IN  /\ attributes.raised = ""
            /\ attributes.value = [k \in 1..Len(g) |-> C10_Label(g[k])]
            /\ \A k \in 1..(Len(g) - 1) : g[k] >= g[k + 1]
            /\ C10_Sum(g) = target
            /\ uac_value = 66048 =>
                   attributes.value = <<"ADS_UF_DONT_EXPIRE_PASSWD", "ADS_UF_NORMAL_ACCOUNT">>

\* witness: 66048 decoded, and an input whose decomposition repeats a label
C10_Witness ==
    /\ pc = "uac_done"
    /\ uac_value = 66048
    /\ attributes.value = <<"ADS_UF_DONT_EXPIRE_PASSWD", "ADS_UF_NORMAL_ACCOUNT">>

C10_WitnessRepeat ==
    /\ pc = "uac_done"
    /\ uac_value = 4
    /\ attributes.value = <<"ADS_UF_ACCOUNTDISABLE", "ADS_UF_ACCOUNTDISABLE">>

(***************************************************************************)
(* The enrichment pipeline on its own: process_all on one object whose raw *)
(* attributes were added one by one                                        *)
(***************************************************************************)
RECURSIVE AddAll(_, _)
AddAll(self, pairs) ==
    IF pairs = <<>> THEN self
    ELSE AddAll(add_attribute(self, Head(pairs)[1], Head(pairs)[2]), Tail(pairs))

MaxClassValues == 2

ObjectClassValues == {"top", "group", "GROUP", "computer", "Computer", "person"}

ObjectClassLists ==
    UNION { [1..n -> ObjectClassValues] : n \in 0..MaxClassValues }

PairsOf(name, values) == [i \in 1..Len(values) |-> <<name, values[i]>>]

\* useraccountcontrol absent, decodable (0x1000), or with a letter among its
\* hex digits (0xa, 0x1a), the last together with a userpassword attribute
UacFields ==
    { <<>>,
      <<<<"userAccountControl", "4096">>>>,
      <<<<"userAccountControl", "10">>>>,
      <<<<"userAccountControl", "26">>, <<"userPassword", "secret">>>> }

EnrichAttrLists ==
    { <<<<"cn", "PC1">>>> \o PairsOf("objectClass", classes) \o os \o uac
        : classes \in ObjectClassLists,
          os \in {<<>>, <<<<"operatingSystem", "Windows">>>>},
          uac \in UacFields }

FileHints == {"", "usersFile", "groupsFile", "computersFile"}

Nows == {20400, 20761}

EnrichInit ==
    /\ pc = "enrich"
    /\ \E pairs \in EnrichAttrLists :
          current_object = <<AddAll(ADObject(DEFAULT_FILENAME_SEED), pairs)>>
    /\ \E hint \in FileHints :
          args = Args(DEFAULT_FILENAME_SEED, DEFAULT_DELIMITER, hint, FALSE, FALSE)
    /\ clock \in Nows
    /\ stream = <<>> /\ line_num = 0 /\ objects = <<>> /\ log = <<>>
    /\ UacIdle
    /\ PropIdle
    /\ FileIdle

EnrichCall ==
    /\ pc = "enrich"
    /\ LET done == process_all(current_object[1], DEFAULT_LOGON_COUNT_THRESHOLD,
                               DEFAULT_LOGON_DATE_THRESHOLD, args.file_hint, clock)
       IN  /\ current_object' = <<done.obj>>
           /\ pc' = IF done.raised = "" THEN "enriched" ELSE "enrich_raised"
    /\ UNCHANGED <<file_vars, uac_vars, args, clock, stream, line_num, objects, log, prop_vars>>

EnrichNext == EnrichCall

SpecEnrich == EnrichInit /\ [][EnrichNext]_vars

C8_Present(self, key) == \E i \in 1..Len(self.raw_data) : self.raw_data[i].key = key

C8_SomeValueHas(self, key, word) ==
    \E i \in 1..Len(self.raw_data) :
        /\ self.raw_data[i].key = key
        /\ \E j \in 1..Len(self.raw_data[i].values) :
              Find(Lower(self.raw_data[i].values[j]), word, 1) > 0

\* C8: after enrichment the classification is Group when objectclass is present
\* with a value containing "group" (any case); else Computer when objectclass is
\* present with a value containing "computer" and operatingsystem is present;
\* else, objectclass absent, Group for hint groupsFile and Computer for hint
\* computersFile; otherwise User.  So "computer" without operatingsystem gives
\* User, the hint is ignored when objectclass is present, and the result is
\* never Domain or Unknown.
C8_Classification ==
    pc = "enriched" =>
        LET self == current_object[1]
            present == C8_Present(self, "objectclass")
            expected ==
                IF present /\ C8_SomeValueHas(self, "objectclass", "group") THEN "GROUP"
                ELSE IF present /\ C8_SomeValueHas(self, "objectclass", "computer")
                           /\ C8_Present(self, "operatingsystem") THEN "COMPUTER"
                ELSE IF ~present /\ args.file_hint = "groupsFile" THEN "GROUP"
                ELSE IF ~present /\ args.file_hint = "computersFile" THEN "COMPUTER"
                ELSE "USER"
        IN  /\ self.object_type = expected
            /\ self.object_type \notin {"DOMAIN", "UNKNOWN"}
            /\ (present /\ C8_SomeValueHas(self, "objectclass", "computer")
                  /\ ~C8_SomeValueHas(self, "objectclass", "group")
                  /\ ~C8_Present(self, "operatingsystem")) => self.object_type = "USER"

\* witness: a "Computer" objectclass without operatingsystem, read from the
\* computers file, classified User
C8_Witness ==
    /\ pc = "enriched"
    /\ args.file_hint = "computersFile"
    /\ C8_SomeValueHas(current_object[1], "objectclass", "computer")
    /\ ~C8_Present(current_object[1], "operatingsystem")
    /\ current_object[1].object_type = "USER"

\* some hex digit of n is one of the letters a-f
RECURSIVE HexHasLetter(_)
HexHasLetter(n) ==
    (n % 16) >= 10 \/ (n >= 16 /\ HexHasLetter(n \div 16))

UacTagSet == { UAC_TAG_RULES[k].tag : k \in 1..Len(UAC_TAG_RULES) }

\* C21: an account-control value with a letter among its hex digits (10, or
\* any value with a nibble of ten or more) is treated as an invalid numeric
\* field: the decoder returns no label list, the object gets no control-flag
\* entry and no account-control tag, and the credential tag and the
\* classification are still worked out.
C21_HexLetterRejected ==
    pc \in {"enriched", "enrich_raised"} =>
        LET self == current_object[1]
            uac_val == Values(self.raw_data, "useraccountcontrol")[1]
        IN  (/\ HasKey(self.raw_data, "useraccountcontrol")
             /\ ~IntRaises(uac_val)
             /\ int(uac_val) >= 0
             /\ HexHasLetter(int(uac_val))) =>
                /\ pc = "enriched"
                /\ calculate_uac_attributes(int(uac_val)) = Raised("ValueError")
                /\ self.uac_values = <<>>
                /\ \A i \in 1..Len(self.tags) : self.tags[i] \notin UacTagSet
                /\ InSeq(TAG_CREDS, self.tags) = HasKey(self.raw_data, "userpassword")
                /\ self.object_type \in {"USER", "GROUP", "COMPUTER"}

\* witness: the value 26 (0x1a) on an object with a password attribute: no
\* control-flag entry, the credential tag set, the object classified
C21_Witness ==
    /\ pc = "enriched"
    /\ HasKey(current_object[1].raw_data, "useraccountcontrol")
    /\ Values(current_object[1].raw_data, "useraccountcontrol") = <<"26">>
    /\ current_object[1].uac_values = <<>>
    /\ current_object[1].tags = <<TAG_CREDS>>
    /\ current_object[1].object_type = "COMPUTER"

(***************************************************************************)
(* The parser on its own: one call of parse_ad_file, line by line, on a    *)
(* file of at most MaxLines lines                                          *)
(***************************************************************************)
MaxLines == 4

ParseLineSet ==
    { "cn: A", "sn-B", "", DEFAULT_SEPARATOR, " \\ ", "objectClass: Group",
      "garbage", "lastLogon: " \o YEAR_10000_TICKS }

Delimiters == {DEFAULT_DELIMITER, "-"}

ParseInit ==
    /\ pc = "parse"
    /\ stream = <<>> /\ line_num = 0 /\ current_object = <<>> /\ objects = <<>> /\ log = <<>>
    /\ \E d \in Delimiters :
          args = Args(DEFAULT_FILENAME_SEED, d, "", FALSE, FALSE)
    /\ clock \in {20761}
    /\ UacIdle
    /\ PropIdle
    /\ FileIdle

\* the next line of the file is read and handled
ParseLine ==
    /\ pc = "parse"
    /\ line_num < MaxLines
    /\ \E raw_line \in ParseLineSet :
          LET st == parse_line([current_object |-> current_object, objects |-> objects,
                                log |-> log], raw_line, args, clock)
          IN  /\ stream' = Append(stream, raw_line)
              /\ line_num' = line_num + 1
              /\ current_object' = st.current_object
              /\ objects' = st.objects
              /\ log' = st.log
    /\ UNCHANGED <<file_vars, pc, uac_vars, args, clock, prop_vars>>

\* the end of the file is met
ParseEnd ==
    /\ pc = "parse"
    /\ LET st == parse_flush([current_object |-> current_object, objects |-> objects,
                              log |-> log], args, clock)
       IN  /\ current_object' = st.current_object
           /\ objects' = st.objects
           /\ log' = st.log
    /\ pc' = "parsed"
    /\ UNCHANGED <<file_vars, uac_vars, args, clock, stream, line_num, prop_vars>>

ParseNext == ParseLine \/ ParseEnd

SpecParse == ParseInit /\ [][ParseNext]_vars

C9_IsSeparator(raw_line) == Strip(raw_line) = "" \/ Strip(raw_line) = DEFAULT_SEPARATOR

C9_Other(raw_line) == IF Strip(raw_line) = "" THEN DEFAULT_SEPARATOR ELSE ""

\* line i of the file read while an object is in progress
C9_InProgressAt(lines, i) ==
    ParseLines(ParseStart, SubSeq(lines, 1, i - 1), args, clock).current_object # <<>>

C9_SameWhenSwapped ==
    \A i \in 1..Len(stream) :
        (C9_IsSeparator(stream[i]) /\ C9_InProgressAt(stream, i)) =>
            parse_ad_file([stream EXCEPT ![i] = C9_Other(stream[i])], args, clock) = objects

\* C9 as stated: a blank line and the sentinel line are interchangeable as
\* record separators, whatever the configured delimiter
C9_BoundaryEquivalence == pc = "parsed" => C9_SameWhenSwapped

C9_DelimiterInSentinel == Contains(DEFAULT_SEPARATOR, args.delimiter)

\* C9 amended: a blank line and the sentinel line met while an object is in
\* progress are interchangeable (same objects, attributes, tags, types) when
\* the configured delimiter does not occur in the sentinel line
C9_BoundaryEquivalenceAmended ==
    (pc = "parsed" /\ ~C9_DelimiterInSentinel) => C9_SameWhenSwapped

\* witness: a file whose first record ends at a sentinel line and whose second
\* ends at a blank line, both returned
C9_Witness ==
    /\ pc = "parsed"
    /\ ~C9_DelimiterInSentinel
    /\ Len(objects) = 2
    /\ \E i, j \in 1..Len(stream) :
          /\ i < j
          /\ stream[i] = DEFAULT_SEPARATOR /\ C9_InProgressAt(stream, i)
          /\ stream[j] = "" /\ C9_InProgressAt(stream, j)

\* the locals of the call once every line of the stream has gone through the loop
AtEndOfStream == ParseLines(ParseStart, stream, args, clock)

\* C11: when the stream ends while an object is in progress, parse_ad_file
\* enriches that object and returns it as the last element of its result; no
\* trailing record is lost.
C11_EndOfStreamFlush ==
    (pc = "parsed" /\ AtEndOfStream.current_object # <<>>) =>
        /\ Len(objects) = Len(AtEndOfStream.objects) + 1
        /\ objects[Len(objects)].raw_data = AtEndOfStream.current_object[1].raw_data
        /\ objects[Len(objects)].object_type # "UNKNOWN"

\* the locals of the call before the line read last went through the loop body
BeforeLastLine == ParseLines(ParseStart, SubSeq(stream, 1, Len(stream) - 1), args, clock)

LastLine == stream[Len(stream)]

\* a line as the loop body splits it: stripped, then freed of backslashes
Cleaned(raw_line) == Replace(Strip(raw_line), "\\", "")

C12_Malformed(raw_line) ==
    /\ Cleaned(raw_line) # ""
    /\ Cleaned(raw_line) # DEFAULT_SEPARATOR
    /\ ~Contains(Cleaned(raw_line), args.delimiter)

\* C12: a line that, stripped of whitespace and backslashes, is not empty, is
\* not the sentinel and does not hold the delimiter gives a malformed-line
\* warning, adds no attribute, does not end the record and leaves the object
\* in progress as it was.
C12_MalformedLine ==
    (pc = "parse" /\ stream # <<>> /\ C12_Malformed(LastLine)) =>
        /\ log = Append(BeforeLastLine.log, "malformed line")
        /\ current_object = BeforeLastLine.current_object
        /\ objects = BeforeLastLine.objects

\* C13: at every boundary line met while an object is in progress the object
\* is yielded and the in-progress state is reset, whether or not its
\* enrichment succeeds, so a returned object never holds the attribute lines
\* of two records.
C13_RecordIsolation ==
    (/\ pc = "parse" /\ stream # <<>>
     /\ IsBoundary(SplitOnce(Cleaned(LastLine), args.delimiter))
     /\ BeforeLastLine.current_object # <<>>) =>
        /\ current_object = <<>>
        /\ Len(objects) = Len(BeforeLastLine.objects) + 1
        /\ objects[Len(objects)].raw_data = BeforeLastLine.current_object[1].raw_data

(***************************************************************************)
(* The parser on one given record: parse_ad_file reads a file holding one  *)
(* record, whose numeric fields are absent, decodable or not decodable,    *)
(* ended by a blank line or by the end of the file                         *)
(***************************************************************************)
LogonCountLines == {<<>>, <<"logonCount: 5">>, <<"logonCount: many">>}

UacLines == {<<>>, <<"userAccountControl: 514">>, <<"userAccountControl: 0x202">>}

LastLogonLines ==
    {<<>>, <<"lastLogon: 132223104000000000">>, <<"lastLogon: never">>,
     <<"lastLogon: " \o YEAR_10000_TICKS>>}

PwdLastSetLines ==
    {<<>>, <<"pwdLastSet: 134067744000000000">>, <<"pwdLastSet: " \o YEAR_10000_TICKS>>}

PasswordLines == {<<>>, <<"userPassword: secret">>}

RecordFiles ==
    { <<"cn: PC1", "objectClass: group">> \o logon \o pwd \o last \o uac \o password \o ending
        : logon \in LogonCountLines, pwd \in PwdLastSetLines, last \in LastLogonLines,
          uac \in UacLines, password \in PasswordLines, ending \in {<<>>, <<"">>} }

RecordInit ==
    /\ pc = "read"
    /\ stream \in RecordFiles
    /\ line_num = 0 /\ current_object = <<>> /\ objects = <<>> /\ log = <<>>
    /\ args = DefaultArgs
    /\ clock = 20761
    /\ UacIdle
    /\ PropIdle
    /\ FileIdle

\* the for loop takes the next line of the file
ReadLine ==
    /\ pc = "read"
    /\ line_num < Len(stream)
    /\ LET st == parse_line([current_object |-> current_object, objects |-> objects,
                             log |-> log], stream[line_num + 1], args, clock)
       IN  /\ current_object' = st.current_object
           /\ objects' = st.objects
           /\ log' = st.log
    /\ line_num' = line_num + 1
    /\ UNCHANGED <<file_vars, pc, uac_vars, args, clock, stream, prop_vars>>

\* the for loop is over: the object in progress is flushed and the list returned
ReadEnd ==
    /\ pc = "read"
    /\ line_num = Len(stream)
    /\ LET st == parse_flush([current_object |-> current_object, objects |-> objects,
                              log |-> log], args, clock)
       IN  /\ current_object' = st.current_object
           /\ objects' = st.objects
           /\ log' = st.log
    /\ pc' = "parsed"
    /\ UNCHANGED <<file_vars, uac_vars, args, clock, stream, line_num, prop_vars>>

RecordNext == ReadLine \/ ReadEnd

SpecRecord == RecordInit /\ [][RecordNext]_vars

\* the value of an attribute line cannot be decoded by the step that reads it
C14_Undecodable(raw_line) ==
    LET parts == SplitOnce(raw_line, DEFAULT_DELIMITER)
        name == Lower(Strip(parts[1]))
        value == Strip(parts[2])
    IN  /\ Len(parts) = 2
        /\ \/ name \in {"logoncount", "useraccountcontrol"} /\ IntRaises(value)
           \/ InSeq(name, TIME_ATTRS) /\ (~isdigit(value) \/ FromTimestampRaises(value))

\* what the parser returns for the same file without its undecodable lines
C14_WithoutUndecodable ==
    parse_ad_file(SelectSeq(stream, LAMBDA raw_line : ~C14_Undecodable(raw_line)),
                  args, clock)

C14_Derived(self) ==
    [ tags |-> self.tags, time_values |-> self.time_values,
      uac_values |-> self.uac_values, members |-> self.members,
      parents |-> self.parents, object_type |-> self.object_type ]

\* C14: when the first value of logoncount, useraccountcontrol or a timestamp
\* attribute cannot be decoded (non-numeric, or all digits but beyond the
\* calendar), process_all omits only the facts and tags derived from that
\* field, runs every other step including classification, and the parser
\* still returns the object: the derived facts are those of the same record
\* without the field.
C14_FieldTotality ==
    pc = "parsed" =>
        /\ Len(objects) = 1
        /\ C14_Derived(objects[1]) = C14_Derived(C14_WithoutUndecodable[1])
        /\ objects[1].object_type = "GROUP"

(***************************************************************************)
(* Privilege propagation on its own: _process_admin_privileges on a        *)
(* collection built by add_object from enriched records                    *)
(***************************************************************************)
MaxDepth == 5        \* stands for the interpreter's recursion limit

MaxPropRuns == 2

RECURSIVE SelectSeq2(_, _)
SelectSeq2(q, keep) ==
    IF q = <<>> THEN <<>>
    ELSE (IF Head(q) \in keep THEN <<Head(q)>> ELSE <<>>) \o SelectSeq2(Tail(q), keep)

\* the member edges a model collection may hold; "X" names no object
CandidateEdges ==
    << <<"A", "B">>, <<"A", "P">>, <<"B", "C">>, <<"B", "U">>, <<"B", "X">>,
       <<"C", "U">>, <<"C", "A">>, <<"B", "B">>, <<"A", "C">> >>

\* the edges every model collection holds
FixedEdges == {<<"A", "P">>, <<"B", "X">>}

EdgeSets ==
    { FixedEdges \cup chosen :
        chosen \in SUBSET ({CandidateEdges[i] : i \in 1..Len(CandidateEdges)} \ FixedEdges) }

MemberPairs(name, edges) ==
    LET mine == SelectSeq2(CandidateEdges, {e \in edges : e[1] = name})
    IN  [i \in 1..Len(mine) |-> <<"member", "CN=" \o mine[i][2] \o ", OU=Users">>]

Enriched(pairs, hint) ==
    process_all(AddAll(ADObject(DEFAULT_FILENAME_SEED), pairs),
                DEFAULT_LOGON_COUNT_THRESHOLD, DEFAULT_LOGON_DATE_THRESHOLD, hint, 20761).obj

GroupRecord(name, admincount, edges) ==
    Enriched(<<<<"cn", name>>, <<"objectClass", "group">>>>
             \o (IF admincount = "" THEN <<>> ELSE <<<<"adminCount", admincount>>>>)
             \o MemberPairs(name, edges), "")

PropObjects(edges, adminB, adminC) ==
    << GroupRecord("C", adminC, edges),
       GroupRecord("A", "1", edges),
       GroupRecord("B", adminB, edges),
       Enriched(<<<<"cn", "U">>, <<"objectClass", "user">>>>, ""),
       Enriched(<<<<"cn", "u">>, <<"objectClass", "user">>>>, ""),
       Enriched(<<<<"cn", "P">>, <<"objectClass", "computer">>,
                  <<"operatingSystem", "Windows">>>>, "") >>

PropInit ==
    /\ pc = "collected"
    /\ \E edges \in EdgeSets, adminB \in {"", "0"}, adminC \in {"", "1"} :
          collection = AddObjects([collection |-> ADCollection, log |-> <<>>],
                                  PropObjects(edges, adminB, adminC)).collection
    /\ admin_groups = <<>>
    /\ stack = <<>>
    /\ prop_runs = 0
    /\ first_run_tags = ADCollection
    /\ args = DefaultArgs
    /\ clock = 0
    /\ UacIdle
    /\ ParseIdle
    /\ FileIdle

\* _process_admin_privileges is called: the triggering groups are listed
PropStart ==
    /\ pc \in {"collected", "propagated"}
    /\ prop_runs < MaxPropRuns
    /\ admin_groups' = AdminGroups(collection.groups)
    /\ prop_runs' = prop_runs + 1
    /\ pc' = "propagating"
    /\ UNCHANGED <<file_vars, uac_vars, args, clock, parse_vars, collection, stack, first_run_tags>>

\* the loop over admin_groups calls _tag_as_admin(group_name, group_name):
\* the group, a key of self.groups, gets the native tag on entry
PropRoot ==
    /\ pc = "propagating"
    /\ stack = <<>>
    /\ admin_groups # <<>>
    /\ collection' = AddTag(collection, "groups", Head(admin_groups), TAG_NATIVE_ADMIN)
    /\ stack' = <<Frame(Head(admin_groups), Head(admin_groups))>>
    /\ admin_groups' = Tail(admin_groups)
    /\ UNCHANGED <<file_vars, pc, uac_vars, args, clock, parse_vars, prop_runs, first_run_tags>>

\* _process_admin_privileges returns
PropReturn ==
    /\ pc = "propagating"
    /\ stack = <<>>
    /\ admin_groups = <<>>
    /\ pc' = "propagated"
    /\ first_run_tags' = IF prop_runs = 1 THEN collection ELSE first_run_tags
    /\ UNCHANGED <<file_vars, uac_vars, args, clock, parse_vars, collection, admin_groups, stack,
                   prop_runs>>

Top == stack[Len(stack)]

TopMembers == DictGet(collection.groups, Top.group_name).members

ReplaceTop(frame) == [stack EXCEPT ![Len(stack)] = frame]

\* the loop of the innermost call is over: the call returns to its caller
TagReturn ==
    /\ pc = "propagating"
    /\ stack # <<>>
    /\ Top.i > Len(TopMembers)
    /\ stack' = SubSeq(stack, 1, Len(stack) - 1)
    /\ UNCHANGED <<file_vars, pc, uac_vars, args, clock, parse_vars, collection, admin_groups,
                   prop_runs, first_run_tags>>

\* the loop body reaches a member that is a group: the child group is tagged
\* and _tag_as_admin(member, origin_name) is called, which tags it natively
TagDescend ==
    /\ pc = "propagating"
    /\ stack # <<>>
    /\ Top.i <= Len(TopMembers)
    /\ ~Top.returned
    /\ Descends(collection, TopMembers[Top.i])
    /\ Len(stack) < MaxDepth
    /\ collection' = AddTag(AddTag(collection, "groups", TopMembers[Top.i],
                                   GroupAdminTag(Top.origin_name)),
                            "groups", TopMembers[Top.i], TAG_NATIVE_ADMIN)
    /\ stack' = Append(ReplaceTop([Top EXCEPT !.returned = TRUE]),
                       Frame(TopMembers[Top.i], Top.origin_name))
    /\ UNCHANGED <<file_vars, pc, uac_vars, args, clock, parse_vars, admin_groups, prop_runs,
                   first_run_tags>>

\* the same call when the recursion limit is reached: RecursionError unwinds
\* every call, and nothing catches it
TagOverflow ==
    /\ pc = "propagating"
    /\ stack # <<>>
    /\ Top.i <= Len(TopMembers)
    /\ ~Top.returned
    /\ Descends(collection, TopMembers[Top.i])
    /\ Len(stack) >= MaxDepth
    /\ collection' = AddTag(collection, "groups", TopMembers[Top.i],
                            GroupAdminTag(Top.origin_name))
    /\ stack' = <<>>
    /\ pc' = "RecursionError"
    /\ UNCHANGED <<file_vars, uac_vars, args, clock, parse_vars, admin_groups, prop_runs,
                   first_run_tags>>

\* the rest of the loop body for the member: the user and the computer checks
TagMember ==
    /\ pc = "propagating"
    /\ stack # <<>>
    /\ Top.i <= Len(TopMembers)
    /\ Top.returned \/ ~Descends(collection, TopMembers[Top.i])
    /\ collection' = TagUserAndComputer(collection, TopMembers[Top.i], Top.origin_name)
    /\ stack' = ReplaceTop([Top EXCEPT !.i = @ + 1, !.returned = FALSE])
    /\ UNCHANGED <<file_vars, pc, uac_vars, args, clock, parse_vars, admin_groups, prop_runs,
                   first_run_tags>>

PropNext ==
    \/ PropStart
    \/ PropRoot
    \/ PropReturn
    \/ TagReturn
    \/ TagDescend
    \/ TagOverflow
    \/ TagMember

SpecProp == PropInit /\ [][PropNext]_vars

KeysOf(dict) == {dict[i].key : i \in 1..Len(dict)}

SeqSet(q) == {q[i] : i \in 1..Len(q)}

TagsOf(bucket, key) == SeqSet(DictGet(collection[bucket], key).tags)

MembersOf(group) == SeqSet(DictGet(collection.groups, group).members)

\* the groups whose first admincount value is present and not "0"
Triggers ==
    { g \in KeysOf(collection.groups) :
        \E i \in 1..Len(DictGet(collection.groups, g).raw_data) :
            /\ DictGet(collection.groups, g).raw_data[i].key = "admincount"
            /\ DictGet(collection.groups, g).raw_data[i].values[1] # "0" }

GroupChildren(S) ==
    { m \in KeysOf(collection.groups) : \E g \in S : m \in MembersOf(g) }

RECURSIVE Closure(_)
Closure(S) == IF GroupChildren(S) \subseteq S THEN S ELSE Closure(S \cup GroupChildren(S))

\* the groups reached from group a through one or more members edges
ReachableGroups(a) == Closure(GroupChildren({a}))

DERIVED_FROM ==
    " based on group parentage tied to admincount=1, ultimately derived from membership in "

\* C3: after _process_admin_privileges (which returns on an acyclic membership
\* graph), every group reachable through members edges from a triggering
\* group A carries the group admin tag naming A, and every user or computer
\* that is a member of A or of such a group carries its admin tag naming A.
C3_TransitivePropagation ==
    pc = "propagated" =>
        \A a \in Triggers :
            /\ \A g \in ReachableGroups(a) :
                  ("#GroupIsAdmin" \o DERIVED_FROM \o a) \in TagsOf("groups", g)
            /\ \A g \in {a} \cup ReachableGroups(a) : \A m \in MembersOf(g) :
                  /\ m \in KeysOf(collection.users) =>
                        ("#IsAdmin" \o DERIVED_FROM \o a) \in TagsOf("users", m)
                  /\ m \in KeysOf(collection.computers) =>
                        ("#ComputerIsAdmin" \o DERIVED_FROM \o a) \in TagsOf("computers", m)

\* witness: A -> B -> C -> U, with B, C and U tagged citing A
C3_Witness ==
    /\ pc = "propagated"
    /\ "A" \in Triggers
    /\ "B" \in MembersOf("A") /\ "C" \in MembersOf("B") /\ "U" \in MembersOf("C")
    /\ "C" \notin MembersOf("A") /\ "U" \notin MembersOf("B")
    /\ ("#GroupIsAdmin" \o DERIVED_FROM \o "A") \in TagsOf("groups", "B")
    /\ ("#GroupIsAdmin" \o DERIVED_FROM \o "A") \in TagsOf("groups", "C")
    /\ ("#IsAdmin" \o DERIVED_FROM \o "A") \in TagsOf("users", "U")

IsAdminTag(tag) ==
    \/ StartsWith(tag, "#GroupIsAdmin")
    \/ StartsWith(tag, "#IsAdmin")
    \/ StartsWith(tag, "#ComputerIsAdmin")

NoRepeatedAdminTag(tags) ==
    \A i, j \in 1..Len(tags) : (i < j /\ IsAdminTag(tags[i])) => tags[i] # tags[j]

\* C4: a second (or further) run of _process_admin_privileges leaves every
\* object as the first run left it, and no admin tag is ever twice in one
\* object's tags.
C4_PropagationIdempotent ==
    /\ (pc = "propagated" /\ prop_runs >= 2) => collection = first_run_tags
    /\ \A bucket \in {"users", "groups", "computers", "domains"} :
          \A i \in 1..Len(collection[bucket]) :
              NoRepeatedAdminTag(collection[bucket][i].obj.tags)

\* witness: a second run has ended on a collection where the first run tagged
\* a child group, a user and a computer
C4_Witness ==
    /\ pc = "propagated"
    /\ prop_runs = 2
    /\ ("#GroupIsAdmin" \o DERIVED_FROM \o "A") \in TagsOf("groups", "B")
    /\ ("#IsAdmin" \o DERIVED_FROM \o "A") \in TagsOf("users", "U")
    /\ ("#ComputerIsAdmin" \o DERIVED_FROM \o "A") \in TagsOf("computers", "P")

\* some group on a members cycle is a triggering group or reachable from one
CycleFromTrigger ==
    \E a \in Triggers : \E g \in {a} \cup ReachableGroups(a) : g \in ReachableGroups(g)

\* C15: when the groups reachable through members edges from a group with
\* nonzero admincount contain a cycle (a group listing itself included),
\* _process_admin_privileges never returns: _tag_as_admin re-enters groups it
\* is already inside, whether or not they carry the tag, and the only end of
\* the run is the interpreter's RecursionError.
C15_CycleNeverCompletes ==
    CycleFromTrigger =>
        /\ pc # "propagated"
        /\ prop_runs <= 1

\* witness: a call of _tag_as_admin for a group is made inside an earlier call
\* for the same group, which carried both admin tags when it was re-entered
C15_Witness ==
    /\ pc = "propagating"
    /\ CycleFromTrigger
    /\ \E i, j \in 1..Len(stack) :
          /\ i < j
          /\ stack[i].group_name = stack[j].group_name
          /\ TAG_NATIVE_ADMIN \in TagsOf("groups", stack[j].group_name)
          /\ GroupAdminTag(stack[j].origin_name) \in TagsOf("groups", stack[j].group_name)

Buckets == {"users", "groups", "computers", "domains"}

\* the tags the i-th object of a bucket gains in a step
AddedTags(bucket, i) ==
    SeqSet(collection'[bucket][i].obj.tags) \ SeqSet(collection[bucket][i].obj.tags)

\* the group _process_admin_privileges makes (or has made) its call of
\* _tag_as_admin for: the root of the traversal a step belongs to
Root == IF stack = <<>> THEN Head(admin_groups) ELSE stack[1].group_name

KindOf(bucket) ==
    CASE bucket = "groups" -> "#GroupIsAdmin"
      [] bucket = "users" -> "#IsAdmin"
      [] bucket = "computers" -> "#ComputerIsAdmin"
      [] OTHER -> "#"

\* the tag of the bucket's kind that names the root of the traversal, itself
\* a triggering group
NamesRoot(tag, bucket) ==
    /\ tag = KindOf(bucket) \o DERIVED_FROM \o Root
    /\ Root \in Triggers

\* C16 as stated: every tag privilege propagation adds to any object names
\* the ultimate origin group that triggered the propagation.
C16_OriginNamed ==
    [][\A bucket \in Buckets : \A i \in 1..Len(collection[bucket]) :
          \A tag \in AddedTags(bucket, i) : NamesRoot(tag, bucket)]_vars

\* C16 amended: every tag privilege propagation adds is either the native
\* tag, given to a group and naming no origin, or the parentage tag of the
\* object's kind naming the triggering group the traversal started from.
C16_OriginNamedAmended ==
    [][\A bucket \in Buckets : \A i \in 1..Len(collection[bucket]) :
          \A tag \in AddedTags(bucket, i) :
              \/ tag = TAG_NATIVE_ADMIN /\ bucket = "groups"
              \/ NamesRoot(tag, bucket)]_vars

\* witness: C is a triggering group itself and is reached from A through B,
\* so its member U carries one tag naming A and one naming C, and none naming B
C16_Witness ==
    /\ pc = "propagated"
    /\ {"A", "C"} \subseteq Triggers /\ "B" \notin Triggers
    /\ "B" \in MembersOf("A") /\ "C" \in MembersOf("B") /\ "U" \in MembersOf("C")
    /\ UserAdminTag("A") \in TagsOf("users", "U")
    /\ UserAdminTag("C") \in TagsOf("users", "U")
    /\ UserAdminTag("B") \notin TagsOf("users", "U")
    /\ GroupAdminTag("A") \in TagsOf("groups", "C")

\* the object under key in bucket is reached from group a: a group through
\* one or more members edges, a user or computer as a member of a or of a
\* group so reached
ReachedFrom(a, bucket, key) ==
    IF bucket = "groups" THEN key \in ReachableGroups(a)
    ELSE \E g \in {a} \cup ReachableGroups(a) : key \in MembersOf(g)

\* the tag is one the object may carry: the native tag on a triggering group
\* or on a group reached from one, or the parentage tag of the object's kind
\* naming a triggering group the object is reached from
SoundTag(tag, bucket, key) ==
    \/ /\ tag = TAG_NATIVE_ADMIN
       /\ bucket = "groups"
       /\ key \in Triggers \/ \E a \in Triggers : ReachedFrom(a, bucket, key)
    \/ \E a \in Triggers :
          /\ tag = KindOf(bucket) \o DERIVED_FROM \o a
          /\ bucket \in {"groups", "users", "computers"}
          /\ ReachedFrom(a, bucket, key)

\* a collection with every tag list emptied
Untagged(coll) ==
    [ bucket \in Buckets |->
        [ i \in 1..Len(coll[bucket]) |->
            [coll[bucket][i] EXCEPT !.obj.tags = <<>>] ] ]

\* C19: an object carries an admin tag naming origin G only if G is a group
\* key whose first admincount value is present and not "0" and the object is
\* reached from G through members names that resolve to group keys; objects
\* outside that closure carry no admin tag; and propagation changes nothing
\* but tag lists.
C19_Soundness ==
    /\ [](\A bucket \in Buckets : \A i \in 1..Len(collection[bucket]) :
            \A tag \in SeqSet(collection[bucket][i].obj.tags) :
                SoundTag(tag, bucket, collection[bucket][i].key))
    /\ [][Untagged(collection') = Untagged(collection)]_vars

\* witness: propagation from A has tagged B, U and P, while the group C and
\* the user u, which no triggering group reaches, carry no tag
C19_Witness ==
    /\ pc = "propagated"
    /\ Triggers = {"A"}
    /\ GroupAdminTag("A") \in TagsOf("groups", "B")
    /\ UserAdminTag("A") \in TagsOf("users", "U")
    /\ ComputerAdminTag("A") \in TagsOf("computers", "P")
    /\ MembersOf("C") # {}
    /\ TagsOf("groups", "C") = {}
    /\ TagsOf("users", "u") = {}

\* C20: the tag "#GroupIsAdmin based on native admincount=1" is carried only
\* by groups whose own first admincount value is present and not "0"; a
\* group reached only as a member of a triggering group never receives it.
C20_NativeTagOnlyOnTriggers ==
    \A g \in KeysOf(collection.groups) :
        TAG_NATIVE_ADMIN \in TagsOf("groups", g) => g \in Triggers

(***************************************************************************)
(* Privilege propagation on nested groups: G1 lists G2, G2 lists G3, ...,  *)
(* the last group lists the user U; no group is listed twice               *)
(***************************************************************************)
ChainNames == <<"G1", "G2", "G3", "G4", "G5", "G6", "G7", "G8">>

ChainLengths == { n \in 1..Len(ChainNames) : n <= MaxDepth + 1 }

ChainObjects(n, admins) ==
    [ i \in 1..n |->
        Enriched(<<<<"cn", ChainNames[i]>>, <<"objectClass", "group">>>>
                 \o (IF i \in admins THEN <<<<"adminCount", "1">>>> ELSE <<>>)
                 \o <<<<"member", "CN=" \o (IF i < n THEN ChainNames[i + 1] ELSE "U")
                                   \o ",OU=Groups">>>>, "") ]
    \o <<Enriched(<<<<"cn", "U">>, <<"objectClass", "user">>>>, "")>>

ChainInit ==
    /\ pc = "collected"
    /\ \E n \in ChainLengths : \E others \in SUBSET (2..n) :
          collection = AddObjects([collection |-> ADCollection, log |-> <<>>],
                                  ChainObjects(n, {1} \cup others)).collection
    /\ admin_groups = <<>>
    /\ stack = <<>>
    /\ prop_runs = 0
    /\ first_run_tags = ADCollection
    /\ args = DefaultArgs
    /\ clock = 0
    /\ UacIdle
    /\ ParseIdle
    /\ FileIdle

SpecChain == ChainInit /\ [][PropNext]_vars

\* no group is its own member, directly or through other groups
Acyclic == \A g \in KeysOf(collection.groups) : g \notin ReachableGroups(g)

\* C18: when the members edges among the groups form no cycle,
\* _process_admin_privileges completes for every set of triggering groups: no
\* run on such a collection ends in an error instead of returning.
C18_AcyclicCompletes == Acyclic => pc # "RecursionError"

(***************************************************************************)
(* to_markdown on its own: successive calls on one user's artifact, with   *)
(* the notes a reader of the vault may add to it in between                *)
(***************************************************************************)
MaxWrites == 3

\* three states of one directory object, as process_all leaves them
MergeObjects ==
    << Enriched(<<<<"cn", "bob">>>>, ""),
       Enriched(<<<<"cn", "bob">>, <<"mail", "x">>,
                  <<"memberOf", "CN=Admins,CN=Users">>,
                  <<"userAccountControl", "514">>,
                  <<"lastLogon", "132223104000000000">>>>, ""),
       Enriched(<<<<"cn", "bob">>, <<"mail", "x">>, <<"mail", "y">>,
                  <<"lastLogon", "134067744000000000">>,
                  <<"pwdLastSet", "132223104000000000">>,
                  <<"userPassword", "hunter2">>>>, "") >>

\* --overwrite and --append exclude each other on the command line
Modes ==
    { [overwrite |-> FALSE, append |-> FALSE],
      [overwrite |-> TRUE, append |-> FALSE],
      [overwrite |-> FALSE, append |-> TRUE] }

\* a note holding a byte that the locale's encoding cannot decode
Notes == { [text |-> "caf?\n", decodable |-> FALSE] }

MergeInit ==
    /\ pc = "merge"
    /\ FileIdle
    /\ args = DefaultArgs
    /\ clock = 20761
    /\ UacIdle
    /\ ParseIdle
    /\ PropIdle

\* obj.to_markdown(self.user_dir, overwrite, append)
ToMarkdown ==
    /\ pc = "merge"
    /\ writes < MaxWrites
    /\ \E i \in 1..Len(MergeObjects), mode \in Modes :
          \E done \in {to_markdown(MergeObjects[i], files, "USERS", mode.overwrite,
                                   mode.append, clock)} :
              /\ files' = done.files
              /\ calls' = Remember(calls, Call(MergeObjects[i], files, "USERS",
                                               mode.overwrite, mode.append, done, calls))
    /\ writes' = writes + 1
    /\ UNCHANGED <<pc, uac_vars, args, clock, parse_vars, prop_vars, pending, runs>>

\* somebody adds a line at the end of an artifact between two calls
UserNote ==
    /\ pc = "merge"
    /\ writes < MaxWrites
    /\ \E filepath \in DOMAIN files, note \in Notes :
          /\ files[filepath].decodable
          /\ files' = [files EXCEPT ![filepath] =
                          [text |-> @.text \o note.text, decodable |-> note.decodable]]
    /\ UNCHANGED <<pc, uac_vars, args, clock, parse_vars, prop_vars, calls, writes,
                   pending, runs>>

MergeNext == ToMarkdown \/ UserNote

SpecMerge == MergeInit /\ [][MergeNext]_vars

IsPrefix(a, b) == Len(a) <= Len(b) /\ SubSeq(b, 1, Len(a)) = a

\* C1: when a merge run on an existing artifact is followed by a second merge
\* run with identical object data against the file the first run left, the
\* second run returns 'unchanged' and leaves the file byte-identical.
C1_MergeIdempotent ==
    ( /\ Len(calls) = 2
      /\ calls[1].merging /\ calls[2].merging
      /\ calls[2].obj = calls[1].obj
      /\ calls[2].before = calls[1].after )
    => (calls[2].result = "unchanged" /\ calls[2].after = calls[2].before)

\* C5: every merge run (smart append or its fallback) on an existing artifact
\* leaves the content it found as a prefix of the content it leaves, and so
\* does every unbroken sequence of merge runs: the text found by the first of
\* them is a prefix of the text left by the last; the file itself starts with
\* what the last merge run left.
C5_MergeAppendOnly ==
    \A i \in 1..Len(calls) :
        calls[i].merging =>
            /\ IsPrefix(calls[i].before, calls[i].after)
            /\ IsPrefix(calls[i].base, calls[i].after)
            /\ i = Len(calls) => IsPrefix(calls[i].after, TextOf(files, calls[i].filepath))

\* witness: two merge runs in a row have appended, the first a block of new
\* data, the second (on a file it could not read back) the full rendering
C5_Witness ==
    /\ Len(calls) = 2
    /\ calls[1].merging /\ calls[1].result = "appended" /\ calls[1].decodable
    /\ calls[2].merging /\ calls[2].result = "appended" /\ ~calls[2].decodable
    /\ calls[2].base = calls[1].before
    /\ Len(calls[2].base) < Len(calls[1].after)
    /\ Len(calls[1].after) < Len(calls[2].before)
    /\ Len(calls[2].before) < Len(calls[2].after)

\* the block a merge run appends when it has read the existing file back
C6_Delta(call) ==
    NewDataBlock(NewData(call.obj, parse_existing_file(call.before)), strftime_now(clock))

C6_Absent(call) ==
    ~call.existed => (call.result = "created" /\ call.after = write_content(call.obj))

C6_Default(call) ==
    (call.existed /\ ~call.overwrite /\ ~call.append) =>
        (call.result = "skipped" /\ call.after = call.before)

C6_Overwrite(call) ==
    (call.existed /\ call.overwrite /\ ~call.append) =>
        (call.result = "overwritten" /\ call.after = write_content(call.obj))

C6_Unchanged(call) == call.result = "unchanged" /\ call.after = call.before

C6_AppendsDelta(call) ==
    /\ call.result = "appended"
    /\ call.after = call.before \o C6_Delta(call)
    /\ HasNewData(NewData(call.obj, parse_existing_file(call.before)))

C6_AppendsAll(call) ==
    /\ call.result = "appended"
    /\ call.after = call.before \o "\n\n## Appended Data - " \o strftime_now(clock)
                    \o "\n\n" \o write_content(call.obj)

\* C6 as stated: an absent file is created with the full rendering in every
\* mode; an existing file is skipped by default, replaced by the full
\* rendering in overwrite mode, and in merge mode gets only a delta appended
\* (or the call returns 'unchanged')
C6_ConflictPolicy ==
    \A i \in 1..Len(calls) :
        /\ C6_Absent(calls[i]) /\ C6_Default(calls[i]) /\ C6_Overwrite(calls[i])
        /\ calls[i].merging => (C6_Unchanged(calls[i]) \/ C6_AppendsDelta(calls[i]))

\* C6 amended: as above, but in merge mode the delta is what is appended when
\* the existing file can be read back; when reading it back fails, the full
\* rendering is appended under an "Appended Data" heading
C6_ConflictPolicyAmended ==
    \A i \in 1..Len(calls) :
        /\ C6_Absent(calls[i]) /\ C6_Default(calls[i]) /\ C6_Overwrite(calls[i])
        /\ (calls[i].merging /\ calls[i].decodable) =>
              (C6_Unchanged(calls[i]) \/ C6_AppendsDelta(calls[i]))
        /\ (calls[i].merging /\ ~calls[i].decodable) => C6_AppendsAll(calls[i])

\* witness: an existing artifact has been overwritten and then merged into,
\* the merge run appending a delta
C6_Witness ==
    /\ Len(calls) = 2
    /\ calls[1].existed /\ calls[1].result = "overwritten"
    /\ calls[2].merging /\ calls[2].decodable /\ calls[2].result = "appended"
    /\ calls[2].before = write_content(calls[1].obj)

\* the number of decoded timestamp lines a text holds for an attribute
TimeLineCount(text, attr) ==
    LET lines == Split(text, "\n")
    IN  Cardinality({ i \in 1..Len(lines) :
                        \E row \in TIME_TABLE :
                            lines[i] = attr \o DEFAULT_DELIMITER \o row.text })

\* C17: a merge adds a decoded timestamp line for an attribute only if no
\* timestamp line already in the artifact starts with that attribute's name,
\* so after any sequence of merge runs on an artifact that held at most one
\* timestamp line for each attribute, it still holds at most one.
C17_TimestampDelta ==
    \A i \in 1..Len(calls) : \A k \in 1..Len(TIME_ATTRS) :
        calls[i].merging =>
            /\ TimeLineCount(calls[i].after, TIME_ATTRS[k])
                   > TimeLineCount(calls[i].before, TIME_ATTRS[k])
                 => TimeLineCount(calls[i].before, TIME_ATTRS[k]) = 0
            /\ TimeLineCount(calls[i].base, TIME_ATTRS[k]) <= 1
                 => TimeLineCount(calls[i].after, TIME_ATTRS[k]) <= 1

(***************************************************************************)
(* main(): one combined input file is parsed, the collection is built,     *)
(* write_all propagates the admin tags and writes every object; the        *)
(* program may then be run again on the same input and output directory    *)
(***************************************************************************)
MaxRuns == 2

\* the records an input file of the model may hold, in this order
MainRecords ==
    << <<"cn: Admins", "objectClass: group", "adminCount: 1", "member: CN=bob, OU=Users">>,
       <<"cn: bob", "objectClass: user">>,
       <<"cn: BOB", "objectClass: user">>,
       <<"sn: nobody">>,
       <<"cn: \\", "sn: empty">>,
       <<"cn: LOOP", "objectClass: group", "adminCount: 1", "member: CN=LOOP">> >>

RECURSIVE RecordLines(_, _)
RecordLines(chosen, i) ==
    IF i > Len(MainRecords) THEN <<>>
    ELSE (IF i \in chosen THEN MainRecords[i] \o <<DEFAULT_SEPARATOR>> ELSE <<>>)
         \o RecordLines(chosen, i + 1)

InputFiles == {RecordLines(chosen, 1) : chosen \in SUBSET (1..Len(MainRecords))}

MainInit ==
    /\ pc = "main"
    /\ stream \in InputFiles
    /\ line_num = 0 /\ current_object = <<>> /\ objects = <<>> /\ log = <<>>
    /\ \E mode \in Modes :
          args = Args(DEFAULT_FILENAME_SEED, DEFAULT_DELIMITER, "", mode.overwrite,
                      mode.append)
    /\ clock = 20761
    /\ files = NoFiles /\ calls = <<>> /\ writes = 0 /\ pending = <<>>
    /\ runs = 1
    /\ UacIdle
    /\ PropIdle

\* objects = parse_ad_file(args.file, ...)
MainParse ==
    /\ pc = "main"
    /\ \E st \in {parse_flush(ParseLines(ParseStart, stream, args, clock), args, clock)} :
          /\ objects' = st.objects
          /\ current_object' = st.current_object
          /\ log' = log \o st.log
    /\ line_num' = Len(stream)
    /\ pc' = "parsed"
    /\ UNCHANGED <<uac_vars, args, clock, stream, prop_vars, file_vars>>

\* for obj in objects: ad_collection.add_object(obj)
MainCollect ==
    /\ pc = "parsed"
    /\ \E st \in {AddObjects([collection |-> ADCollection, log |-> log], objects)} :
          /\ collection' = st.collection
          /\ log' = st.log
    /\ pc' = "built"
    /\ UNCHANGED <<uac_vars, args, clock, stream, line_num, current_object, objects,
                   admin_groups, stack, prop_runs, first_run_tags, file_vars>>

\* write_all: the directories are made and _process_admin_privileges is called
WriteAllStart ==
    /\ pc = "built"
    /\ admin_groups' = AdminGroups(collection.groups)
    /\ prop_runs' = prop_runs + 1
    /\ pc' = "propagating"
    /\ UNCHANGED <<uac_vars, args, clock, parse_vars, collection, stack, first_run_tags,
                   file_vars>>

RECURSIVE InDirectory(_, _)
InDirectory(output_dir, dict) ==
    IF dict = <<>> THEN <<>>
    ELSE <<[output_dir |-> output_dir, obj |-> Head(dict).obj]>>
         \o InDirectory(output_dir, Tail(dict))

\* write_all: the four loops are entered, users first
WriteAllLoop ==
    /\ pc = "propagated"
    /\ pending' = InDirectory("USERS", collection.users)
                  \o InDirectory("GROUPS", collection.groups)
                  \o InDirectory("COMPUTERS", collection.computers)
                  \o InDirectory("DOMAINS", collection.domains)
    /\ pc' = "writing"
    /\ UNCHANGED <<uac_vars, args, clock, parse_vars, prop_vars, files, calls, writes, runs>>

\* result = obj.to_markdown(directory, overwrite, append)
WriteObject ==
    /\ pc = "writing"
    /\ pending # <<>>
    /\ \E done \in {to_markdown(Head(pending).obj, files, Head(pending).output_dir,
                                args.overwrite, args.append, clock)} :
          /\ files' = done.files
          /\ calls' = Remember(calls, Call(Head(pending).obj, files,
                                           Head(pending).output_dir, args.overwrite,
                                           args.append, done, calls))
    /\ writes' = writes + 1
    /\ pending' = Tail(pending)
    /\ UNCHANGED <<pc, uac_vars, args, clock, parse_vars, prop_vars, runs>>

\* write_all returns and main() ends
WriteAllReturn ==
    /\ pc = "writing"
    /\ pending = <<>>
    /\ pc' = "done"
    /\ UNCHANGED <<uac_vars, args, clock, parse_vars, prop_vars, file_vars>>

\* the program is started again on the same input and output directory
MainAgain ==
    /\ pc = "done"
    /\ runs < MaxRuns
    /\ runs' = runs + 1
    /\ \E mode \in Modes : args' = [args EXCEPT !.overwrite = mode.overwrite,
                                                !.append = mode.append]
    /\ line_num' = 0 /\ current_object' = <<>> /\ objects' = <<>> /\ log' = <<>>
    /\ collection' = ADCollection /\ admin_groups' = <<>> /\ stack' = <<>>
    /\ prop_runs' = 0 /\ first_run_tags' = ADCollection
    /\ pc' = "main"
    /\ UNCHANGED <<uac_vars, clock, stream, files, calls, writes, pending>>

Next ==
    \/ MainParse
    \/ MainCollect
    \/ WriteAllStart
    \/ PropRoot
    \/ PropReturn
    \/ TagReturn
    \/ TagDescend
    \/ TagOverflow
    \/ TagMember
    \/ WriteAllLoop
    \/ WriteObject
    \/ WriteAllReturn
    \/ MainAgain

Spec == MainInit /\ [][Next]_vars

FirstValue(obj, attr_name) ==
    IF HasKey(obj.raw_data, attr_name) THEN Values(obj.raw_data, attr_name)[1] ELSE ""

\* the input holds the Admins group of the example, and the user bob
C2_AdminsParsed ==
    \E i \in 1..Len(objects) :
        /\ FirstValue(objects[i], "cn") = "Admins"
        /\ FirstValue(objects[i], "admincount") = "1"
        /\ InSeq("CN=bob, OU=Users", Values(objects[i].raw_data, "member"))

C2_BobParsed ==
    \E i \in 1..Len(objects) :
        FirstValue(objects[i], "cn") = "bob" /\ objects[i].object_type = "USER"

\* C2: when the group Admins (nonzero admincount, member 'CN=bob, OU=Users')
\* is parsed together with the user bob, then after collection building and
\* privilege propagation the user stored under key 'bob' carries an admin tag
\* naming Admins as origin, and the Admins object lists bob as a member.
C2_EndToEnd ==
    (pc \in {"propagated", "writing", "done"} /\ C2_AdminsParsed /\ C2_BobParsed) =>
        /\ HasKey(collection.users, "bob")
        /\ InSeq(UserAdminTag("Admins"), DictGet(collection.users, "bob").tags)
        /\ HasKey(collection.groups, "Admins")
        /\ InSeq("bob", DictGet(collection.groups, "Admins").members)

\* the configured seed attribute is absent, or present with an empty first value
C7_Unresolvable(obj) == FirstValue(obj, obj.filename_seed) = ""

C7_InCollection(obj) ==
    \E bucket \in {"users", "groups", "computers", "domains"} :
        \E i \in 1..Len(collection[bucket]) :
            collection[bucket][i].obj.raw_data = obj.raw_data

C7_Written(obj) ==
    \E filepath \in DOMAIN files : Contains(files[filepath].text, RawLines(obj.raw_data))

\* C7: an object whose seed attribute is absent, or present with an empty
\* first value, is placed in none of the four collections and no artifact is
\* written for it, while the other objects of the run are stored and written.
C7_UnresolvableDropped ==
    pc = "done" =>
        \A i \in 1..Len(objects) :
            IF C7_Unresolvable(objects[i])
            THEN ~C7_InCollection(objects[i]) /\ ~C7_Written(objects[i])
            ELSE C7_InCollection(objects[i]) /\ C7_Written(objects[i])

=============================================================================
